---- MODULE Spec2Model ----
(***************************************************************************)
(* Energy hub optimisation models (EnergyHub, EnergyHubRetrofit,           *)
(* EnergyHub_retrofit): the search driver solve() and the constraint       *)
(* families it hands to the MILP solver.                                   *)
(*                                                                         *)
(* The MILP solver is external.  A model snapshot is abstracted to its     *)
(* feasible region in objective space: a finite set of designs, each a     *)
(* pair (Total_cost, Total_carbon), to which the driver adds the carbon    *)
(* constraint Total_carbon <= epsilon.  A solver call returns any design   *)
(* of the region that is optimal for the active objective, or reports      *)
(* infeasible and loads nothing, or (where a time limit is set) stops with *)
(* any feasible design or none.  Reals are exact rationals num/den.        *)
(* The modules imported by solve() (pyomo, numpy, pyomoio, the example     *)
(* script that supplies the scenario counter, the result writers) are      *)
(* taken to be present; they do not write the driver's state.              *)
(***************************************************************************)
EXTENDS Integers, Sequences, FiniteSets, TLC

\* ------------------------------------------------------------------ bounds
MaxN == 6
MaxCost == 2
MaxCarbon == 2
MaxDesigns == 3
MaxSolves == 2
MaxScenarios == 3
MaxSample == 2
MaxTech == 2
MaxTimeouts == 1

\* --------------------------------------------------------------- constants
EpsilonInitLarge == 100000000
EpsilonInitZero == 0
SlackPercent == 101
NoSlackPercent == 100
NoValue == -1
BigM == 1000000
BigM_2 == 10000
min_install == 10
LastStepOffset == 23
LastDayOffset == 364
LastHourOffset == 8759
FirstHourStride == 24
CalendarDays == 365
ErInverse == 1000000
ScdDivisor == 100

Variants == {"EnergyHub", "EnergyHubRetrofit", "EnergyHub_retrofit"}
OptimModes == 1 .. 4

\* temp_res: 1 typical days, 2 full horizon, 3 typical days with continuous
\* storage state; EnergyHub_retrofit tests temp_res == 1 and takes every
\* other value as the full horizon
TempResOf(v) == IF v = "EnergyHub_retrofit" THEN 1 .. 2 ELSE 1 .. 3

\* self.temp_res = temp_res: the constructor stores whatever it is passed;
\* 4 stands for the values the docstring does not list
AcceptedTempRes == 1 .. 4

\* the search driver: the instance, the model snapshot, the locals of solve()
VARIABLES variant, optim_mode, num_of_pareto_points, num_of_pfp, sp_bound, region,
          epsilon, Cost_obj, Carbon_obj, vals,
          pc, i, steps, carb_max, carb_min, front, calls, err, nsolve

\* the constraint generator create_model(): the temporal resolution of the
\* instance, an assignment of the variables and parameters one constraint
\* family reads, and whether the generated constraints accept it
VARIABLES temp_res, cs, sat

dvars == <<variant, optim_mode, num_of_pareto_points, num_of_pfp, sp_bound, region,
           epsilon, Cost_obj, Carbon_obj, vals,
           pc, i, steps, carb_max, carb_min, front, calls, err, nsolve>>

cvars == <<temp_res, cs, sat>>

vars == <<dvars, cvars>>

\* ---------------------------------------------------------------- rationals
\* Python floats are modelled as exact rationals in lowest terms.
RECURSIVE GCD(_, _)
GCD(a, b) == IF b = 0 THEN a ELSE GCD(b, a % b)
Abs(x) == IF x < 0 THEN -x ELSE x
Rat(n, d) ==
    LET g == GCD(Abs(n), Abs(d))
    IN IF g = 0 THEN [num |-> 0, den |-> 0]
       ELSE IF d < 0 THEN [num |-> (-n) \div g, den |-> (-d) \div g]
       ELSE [num |-> n \div g, den |-> d \div g]
NoRat == [num |-> 0, den |-> 0]
RatLeq(a, b) == a.num * b.den <= b.num * a.den
RatLt(a, b) == a.num * b.den < b.num * a.den
RatSub(a, b) == Rat(a.num * b.den - b.num * a.den, a.den * b.den)
RatAdd(a, b) == Rat(a.num * b.den + b.num * a.den, a.den * b.den)
RatDivInt(a, n) == Rat(a.num, a.den * n)
RatMulInt(a, n) == Rat(a.num * n, a.den)

\* ------------------------------------------------- model snapshot (abstract)
\* A design is a point (Total_cost, Total_carbon); both variables are declared
\* within NonNegativeReals.
Designs == [cost : 1 .. MaxCost, carbon : 0 .. MaxCarbon]
Regions == {r \in SUBSET Designs : Cardinality(r) <= MaxDesigns}

\* epsilon = pe.Param(initialize=..., mutable=True)
EpsilonInit(v) ==
    IF v = "EnergyHubRetrofit" THEN Rat(EpsilonInitZero, 1)
                               ELSE Rat(EpsilonInitLarge, 1)

\* carb_min = pe.value(Total_carbon) [* 1.01], in hundredths
Slack_EveryVariant(v) == SlackPercent
Slack(v) == IF v = "EnergyHubRetrofit" THEN SlackPercent ELSE NoSlackPercent

\* Total_cost / Total_carbon before any solution is loaded
InitialVals(v) ==
    IF v = "EnergyHubRetrofit" THEN [cost |-> NoValue, carbon |-> 0]
                               ELSE [cost |-> NoValue, carbon |-> NoValue]

\* The objective the solver sees: exactly one must be active.
ActiveObjective(costActive, carbonActive) ==
    IF costActive /\ ~carbonActive THEN "cost"
    ELSE IF carbonActive /\ ~costActive THEN "carbon"
    ELSE "invalid"

\* Carbon_constraint_rule: Total_carbon <= epsilon
Carbon_constraint_rule(d, eps) == RatLeq(Rat(d.carbon, 1), eps)

Feasible(reg, eps) == {d \in reg : Carbon_constraint_rule(d, eps)}

Optimal(reg, eps, objective) ==
    LET F == Feasible(reg, eps)
    IN IF objective = "cost"
       THEN {d \in F : \A e \in F : d.cost <= e.cost}
       ELSE {d \in F : \A e \in F : d.carbon <= e.carbon}

\* solver calls of this solve() that ended at the time limit
Timeouts ==
    Cardinality({k \in 1 .. Len(calls) :
                    calls[k].status \in {"time_limit", "time_limit_no_incumbent"}})

\* optimizer.options["TimeLimit"] = time_limit (EnergyHubRetrofit only): the
\* solver may stop at the limit, holding as incumbent any design that
\* satisfies the constraints, or none.
TimeLimitOutcomes(reg, eps, objective, current) ==
    IF variant = "EnergyHubRetrofit" /\ objective # "invalid"
                                     /\ Timeouts < MaxTimeouts
    THEN {[status |-> "time_limit", vals |-> d] : d \in Feasible(reg, eps)}
            \cup {[status |-> "time_limit_no_incumbent", vals |-> current]}
    ELSE {}

\* optimizer.solve(self.m, ...): loads an optimal design into the model, or
\* reports infeasible and leaves the variable values as they were, or stops
\* at the time limit.
SolverOutcomes(reg, eps, objective, current) ==
    IF objective = "invalid"
    THEN {[status |-> "error", vals |-> current]}
    ELSE (IF Optimal(reg, eps, objective) = {}
          THEN {[status |-> "infeasible", vals |-> current]}
          ELSE {[status |-> "optimal", vals |-> d] : d \in Optimal(reg, eps, objective)})
         \cup TimeLimitOutcomes(reg, eps, objective, current)

\* optimizer.solve loads the result into the model before it returns
\* (load_solutions): a model with two active objectives is refused, and so is
\* a result of an aborted solve that carries no solution; both raise
\* ValueError out of solve().  A result with a solution, or one that reports
\* infeasible, is loaded.
LoadRaises_Never(status) == status = "error"
LoadRaises(status) == status \in {"error", "time_limit_no_incumbent"}

\* ------------------------------------------------------------- np.arange
RECURSIVE OddPart(_)
OddPart(n) == IF n % 2 = 0 THEN OddPart(n \div 2) ELSE n

RECURSIVE Pow2Floor(_)
Pow2Floor(n) == IF n < 2 THEN 1 ELSE 2 * Pow2Floor(n \div 2)

\* np.arange(start, stop, step) has ceil((stop - start) / step) elements, the
\* quotient being computed in binary floating point.  Here step is itself the
\* rounded quotient (stop - start) / n, so the exact value is n; the computed
\* one is n or the next double above n.  The latter needs the rounding error
\* of the division by n to exceed half an ulp of n, which happens for some
\* operands exactly when the odd part o of n has o - 1 > 2^floor(log2 o)
\* (n = 7, 11, 13, 14, 15, ...).
QuotientMayRoundUp(n) == OddPart(n) - 1 > Pow2Floor(OddPart(n))

ArangeLengths(n) == IF QuotientMayRoundUp(n) THEN {n, n + 1} ELSE {n}

\* the elements start + k * step, k = 0 .. len - 1
Arange(start, step, len) ==
    [k \in 1 .. len |-> RatAdd(start, RatMulInt(step, k - 1))]

\* list.reverse()
Reverse(s) == [k \in 1 .. Len(s) |-> s[Len(s) + 1 - k]]

\* interval = (carb_max - carb_min) / (num_of_pfp + 1)
Interval(cmax, cmin, n) == RatDivInt(RatSub(cmax, cmin), n + 1)

\* steps = list(np.arange(carb_min, carb_max, interval)); steps.reverse()
StepLists(cmax, cmin, n) ==
    {Reverse(Arange(cmin, Interval(cmax, cmin, n), len)) :
        len \in ArangeLengths(n + 1)}

\* ------------------------------------------------------------ driver state
\* [None] * k
NoneEntry == [filled |-> FALSE, cost |-> NoValue, carbon |-> NoValue, call |-> 0]
NoneList(k) == [j \in 1 .. k |-> NoneEntry]

\* what the result getters read from the model after solver call number c
Entry(v, c) == [filled |-> TRUE, cost |-> v.cost, carbon |-> v.carbon, call |-> c]

\* one solver invocation as the solver sees the model
CallRec(tag, eps, costActive, carbonActive, idx, out) ==
    [step |-> tag, eps |-> eps, Cost_obj |-> costActive,
     Carbon_obj |-> carbonActive, region |-> region, i |-> idx,
     status |-> out.status, result |-> out.vals]

NoAssignment == [kind |-> "none"]

\* __init__: if self.optim_mode == 1 or self.optim_mode == 2:
\*               self.num_of_pfp = 0
\*           else: self.num_of_pfp = num_of_pareto_points
NumOfPfp_Passed(mode, passed) == passed
NumOfPfp(mode, passed) == IF mode = 1 \/ mode = 2 THEN 0 ELSE passed

\* __init__ followed by create_model
Init ==
    /\ variant \in Variants
    /\ optim_mode \in OptimModes
    /\ num_of_pareto_points \in 0 .. MaxN
    /\ num_of_pfp = NumOfPfp(optim_mode, num_of_pareto_points)
    /\ sp_bound \in (IF variant = "EnergyHub" THEN BOOLEAN ELSE {FALSE})
    /\ region \in Regions
    /\ epsilon = EpsilonInit(variant)
    /\ Cost_obj = TRUE
    /\ Carbon_obj = TRUE
    /\ vals = InitialVals(variant)
    /\ pc = "idle"
    /\ i = 0
    /\ steps = << >>
    /\ carb_max = NoRat
    /\ carb_min = NoRat
    /\ front = << >>
    /\ calls = << >>
    /\ err = "none"
    /\ nsolve = 1
    /\ temp_res = 1
    /\ cs = NoAssignment
    /\ sat = FALSE

\* solve() works on the one model self.m built by create_model: it assigns
\* epsilon and switches the two objectives, and nothing else of the model
ModelFrame_Rebuild == region' = {}
ModelFrame == region' = region

Raise(e) == pc' = "raised" /\ err' = e

\* self.m.Carbon_obj.deactivate(); self.m.Cost_obj.activate()
SwitchToCost_KeepCarbon == Carbon_obj' = TRUE /\ Cost_obj' = TRUE
SwitchToCost == Carbon_obj' = FALSE /\ Cost_obj' = TRUE

\* pickle_solver_results(sp.m, ...): sp is a global of the EnergyHub module
\* that only its __main__ block binds.
SpNameError == variant = "EnergyHub" /\ ~sp_bound

\* carb_min = pe.value(self.m.Total_carbon) [* 1.01]
CarbMinOf(v) == Rat(v.carbon * Slack(variant), NoSlackPercent)

\* optim_mode == 1: cost minimisation
CostMin ==
    /\ pc = "idle" /\ optim_mode = 1
    /\ Carbon_obj' = FALSE
    /\ \E out \in SolverOutcomes(region, epsilon, ActiveObjective(Cost_obj, FALSE), vals) :
         /\ vals' = out.vals
         /\ calls' = Append(calls, CallRec("cost_min", epsilon, Cost_obj, FALSE, 0, out))
         /\ IF LoadRaises(out.status)
            THEN Raise("ValueError") /\ front' = NoneList(1)
            ELSE /\ front' = << Entry(out.vals, Len(calls) + 1) >>
                 /\ pc' = "returned"
                 /\ err' = err
    /\ ModelFrame
    /\ UNCHANGED <<variant, optim_mode, num_of_pareto_points, num_of_pfp, sp_bound, cvars, epsilon,
                   Cost_obj, i, steps, carb_max, carb_min, nsolve>>

\* optim_mode == 2, first solve: carbon minimisation
CarbonMin ==
    /\ pc = "idle" /\ optim_mode = 2
    /\ front' = NoneList(1)
    /\ \E out \in SolverOutcomes(region, epsilon, ActiveObjective(FALSE, TRUE), vals) :
         /\ vals' = out.vals
         /\ calls' = Append(calls, CallRec("carbon_min", epsilon, FALSE, TRUE, 0, out))
         /\ IF LoadRaises(out.status) \/ out.vals.carbon = NoValue
            THEN /\ Raise("ValueError")
                 /\ Carbon_obj' = TRUE /\ Cost_obj' = FALSE
                 /\ UNCHANGED <<epsilon, carb_min>>
            ELSE /\ carb_min' = CarbMinOf(out.vals)
                 /\ epsilon' = CarbMinOf(out.vals)
                 /\ SwitchToCost
                 /\ pc' = "carbon_min_cost"
                 /\ err' = err
    /\ ModelFrame
    /\ UNCHANGED <<variant, optim_mode, num_of_pareto_points, num_of_pfp, sp_bound, cvars,
                   i, steps, carb_max, nsolve>>

\* optim_mode == 2, second solve: cost minimisation under carbon <= carb_min
CarbonMinCost ==
    /\ pc = "carbon_min_cost"
    /\ \E out \in SolverOutcomes(region, epsilon, ActiveObjective(Cost_obj, Carbon_obj), vals) :
         /\ vals' = out.vals
         /\ calls' = Append(calls, CallRec("carbon_min_cost", epsilon, Cost_obj, Carbon_obj, 0, out))
         /\ IF LoadRaises(out.status)
            THEN Raise("ValueError") /\ front' = front
            ELSE /\ front' = << Entry(out.vals, Len(calls) + 1) >>
                 /\ pc' = "returned"
                 /\ err' = err
    /\ ModelFrame
    /\ UNCHANGED <<variant, optim_mode, num_of_pareto_points, num_of_pfp, sp_bound, cvars, epsilon,
                   Cost_obj, Carbon_obj, i, steps, carb_max, carb_min, nsolve>>

\* multi-objective, first solve: cost minimisation (anchor, entry 0)
CostAnchor ==
    /\ pc = "idle" /\ optim_mode # 1 /\ optim_mode # 2
    /\ Carbon_obj' = FALSE
    /\ \E out \in SolverOutcomes(region, epsilon, ActiveObjective(Cost_obj, FALSE), vals) :
         /\ vals' = out.vals
         /\ calls' = Append(calls, CallRec("cost_anchor", epsilon, Cost_obj, FALSE, 0, out))
         /\ IF LoadRaises(out.status) \/ out.vals.carbon = NoValue
            THEN /\ Raise("ValueError")
                 /\ front' = NoneList(num_of_pfp + 2)
                 /\ carb_max' = carb_max
            ELSE /\ carb_max' = Rat(out.vals.carbon, 1)
                 /\ front' = [NoneList(num_of_pfp + 2) EXCEPT
                                 ![1] = Entry(out.vals, Len(calls) + 1)]
                 /\ pc' = "carbon_anchor"
                 /\ err' = err
    /\ ModelFrame
    /\ UNCHANGED <<variant, optim_mode, num_of_pareto_points, num_of_pfp, sp_bound, cvars, epsilon,
                   Cost_obj, i, steps, carb_min, nsolve>>

\* multi-objective, second solve: carbon minimisation, then the preparation
\* of the single re-solve (num_of_pfp == 0) or of the sweep
CarbonAnchor ==
    /\ pc = "carbon_anchor"
    /\ \E out \in SolverOutcomes(region, epsilon, ActiveObjective(FALSE, TRUE), vals) :
         /\ vals' = out.vals
         /\ calls' = Append(calls, CallRec("carbon_anchor", epsilon, FALSE, TRUE, 0, out))
         /\ IF LoadRaises(out.status) \/ out.vals.carbon = NoValue
            THEN /\ Raise("ValueError")
                 /\ Carbon_obj' = TRUE /\ Cost_obj' = FALSE
                 /\ UNCHANGED <<epsilon, carb_min, steps, i>>
            ELSE /\ carb_min' = CarbMinOf(out.vals)
                 /\ SwitchToCost
                 /\ IF num_of_pfp = 0
                    THEN /\ epsilon' = CarbMinOf(out.vals)
                         /\ pc' = "single"
                         /\ UNCHANGED <<steps, i, err>>
                    ELSE IF Interval(carb_max, CarbMinOf(out.vals), num_of_pfp).num = 0
                    THEN /\ Raise("ZeroDivisionError")
                         /\ UNCHANGED <<epsilon, steps, i>>
                    ELSE \E st \in StepLists(carb_max, CarbMinOf(out.vals), num_of_pfp) :
                         /\ steps' = st
                         /\ i' = 1
                         /\ IF Len(st) < 1
                            THEN Raise("IndexError") /\ epsilon' = epsilon
                            ELSE /\ epsilon' = st[1]
                                 /\ pc' = "sweep"
                                 /\ err' = err
    /\ ModelFrame
    /\ UNCHANGED <<variant, optim_mode, num_of_pareto_points, num_of_pfp, sp_bound, cvars,
                   carb_max, front, nsolve>>

\* multi-objective, num_of_pfp == 0: one cost minimisation with epsilon = carb_min
SinglePoint ==
    /\ pc = "single"
    /\ \E out \in SolverOutcomes(region, epsilon, ActiveObjective(Cost_obj, Carbon_obj), vals) :
         /\ vals' = out.vals
         /\ calls' = Append(calls, CallRec("single", epsilon, Cost_obj, Carbon_obj, 1, out))
         /\ IF LoadRaises(out.status)
            THEN Raise("ValueError") /\ front' = front
            ELSE IF SpNameError
            THEN Raise("NameError") /\ front' = front
            ELSE /\ front' = [front EXCEPT ![2] = Entry(out.vals, Len(calls) + 1)]
                 /\ pc' = "returned"
                 /\ err' = err
    /\ ModelFrame
    /\ UNCHANGED <<variant, optim_mode, num_of_pareto_points, num_of_pfp, sp_bound, cvars, epsilon,
                   Cost_obj, Carbon_obj, i, steps, carb_max, carb_min, nsolve>>

\* multi-objective, num_of_pfp >= 1: iteration i of the loop over steps; the
\* assignment epsilon = steps[i - 1] of the next iteration closes the step
SweepStep ==
    /\ pc = "sweep"
    /\ \E out \in SolverOutcomes(region, epsilon, ActiveObjective(Cost_obj, Carbon_obj), vals) :
         /\ vals' = out.vals
         /\ calls' = Append(calls, CallRec("sweep", epsilon, Cost_obj, Carbon_obj, i, out))
         /\ IF LoadRaises(out.status)
            THEN Raise("ValueError") /\ UNCHANGED <<front, i, epsilon>>
            ELSE IF SpNameError
            THEN Raise("NameError") /\ UNCHANGED <<front, i, epsilon>>
            ELSE /\ front' = [front EXCEPT ![i + 1] = Entry(out.vals, Len(calls) + 1)]
                 /\ IF i = num_of_pfp + 1
                    THEN /\ pc' = "returned"
                         /\ UNCHANGED <<i, epsilon, err>>
                    ELSE /\ i' = i + 1
                         /\ IF Len(steps) < i + 1
                            THEN Raise("IndexError") /\ epsilon' = epsilon
                            ELSE /\ epsilon' = steps[i + 1]
                                 /\ pc' = "sweep"
                                 /\ err' = err
    /\ ModelFrame
    /\ UNCHANGED <<variant, optim_mode, num_of_pareto_points, num_of_pfp, sp_bound, cvars,
                   Cost_obj, Carbon_obj, steps, carb_max, carb_min, nsolve>>

\* a further call of solve() on the same model (the scenario loop of the
\* example script): the locals are new, the model keeps epsilon, the
\* objective flags and the loaded values
SolveAgain ==
    /\ pc = "returned" /\ nsolve < MaxSolves
    /\ nsolve' = nsolve + 1
    /\ pc' = "idle"
    /\ i' = 0
    /\ steps' = << >>
    /\ carb_max' = NoRat
    /\ carb_min' = NoRat
    /\ front' = << >>
    /\ calls' = << >>
    /\ UNCHANGED <<variant, optim_mode, num_of_pareto_points, num_of_pfp, sp_bound, cvars, region, epsilon,
                   Cost_obj, Carbon_obj, vals, err>>

Next ==
    \/ CostMin
    \/ CarbonMin
    \/ CarbonMinCost
    \/ CostAnchor
    \/ CarbonAnchor
    \/ SinglePoint
    \/ SweepStep
    \/ SolveAgain

Spec == Init /\ [][Next]_vars

\* ====================================================== constraint generator
\* Constraint rules are evaluated on one assignment of the variables they
\* read, at one index of the constraint: each behaviour draws one assignment
\* and applies the rules to it.  Continuous variables are sampled at the low
\* and the high end of their range.
LowHigh(lo, hi) == (lo .. lo + MaxSample) \cup (hi - MaxSample .. hi)

RECURSIVE SumOver(_, _)
SumOver(f, S) ==
    IF S = {} THEN 0
    ELSE LET r == CHOOSE r \in S : TRUE
         IN f[r] + SumOver(f, S \ {r})

\* sum(m.y_retrofit[ret] for ret in m.Retrofit_scenarios) == 1
\* (the same rule in EnergyHub_retrofit.py, lines 697-703)
One_retrofit_state_rule_AtMostOne(scen, y) == SumOver(y, scen) <= 1
One_retrofit_state_rule(scen, y) == SumOver(y, scen) = 1

\* y_retrofit = pe.Var(Retrofit_scenarios, within=pe.Binary)
RetrofitAssignments ==
    UNION {{[kind |-> "retrofit", scen |-> S, y |-> y] : y \in [S -> {0, 1}]} :
             S \in (SUBSET (1 .. MaxScenarios)) \ {{}}}

\* z1 .. z5: the four inequalities per auxiliary
z1_rule_1(a) == a.z1 >= 0
z1_rule_2(a) == a.z1 <= BigM * a.y
z1_rule_3(a) == a.P_import - a.z1 >= 0
z1_rule_4(a) == a.P_import - a.z1 <= BigM * (1 - a.y)

z2_rule_1(a) == a.z2 >= 0
z2_rule_2(a) == a.z2 <= BigM * a.y
z2_rule_3(a) == a.P_export - a.z2 >= 0
z2_rule_4(a) == a.P_export - a.z2 <= BigM * (1 - a.y)

z3_rule_1(a) == a.z3 >= 0
z3_rule_2(a) == a.z3 <= BigM * a.y
z3_rule_3(a) == a.Conv_cap - a.z3 >= 0
z3_rule_4(a) == a.Conv_cap - a.z3 <= BigM * (1 - a.y)

z4_rule_1(a) == a.z4 >= 0
z4_rule_2(a) == a.z4 <= BigM * a.y
z4_rule_3(a) == a.Qin - a.z4 >= 0
z4_rule_4_NoSwitch(a) == a.Qin - a.z4 <= BigM
z4_rule_4(a) == a.Qin - a.z4 <= BigM * (1 - a.y)

z5_rule_1(a) == a.z5 >= 0
z5_rule_2(a) == a.z5 <= BigM * a.y
z5_rule_3(a) == a.Qout - a.z5 >= 0
z5_rule_4(a) == a.Qout - a.z5 <= BigM * (1 - a.y)

\* the constraints generated for auxiliary number a.aux at one index
BilinearRules(a) ==
    CASE a.aux = 1 -> z1_rule_1(a) /\ z1_rule_2(a) /\ z1_rule_3(a) /\ z1_rule_4(a)
      [] a.aux = 2 -> z2_rule_1(a) /\ z2_rule_2(a) /\ z2_rule_3(a) /\ z2_rule_4(a)
      [] a.aux = 3 -> z3_rule_1(a) /\ z3_rule_2(a) /\ z3_rule_3(a) /\ z3_rule_4(a)
      [] a.aux = 4 -> z4_rule_1(a) /\ z4_rule_2(a) /\ z4_rule_3(a) /\ z4_rule_4(a)
      [] a.aux = 5 -> z5_rule_1(a) /\ z5_rule_2(a) /\ z5_rule_3(a) /\ z5_rule_4(a)

\* P_import, P_export, Conv_cap, Qin, Qout: NonNegativeReals; z1 .. z5: Reals;
\* y_retrofit[ret]: Binary.  x is the variable paired with auxiliary aux, o
\* the value of the four others; the auxiliaries not under test are 0.
BilinearAssignment(aux, yv, x, o, z) ==
    [kind |-> "bilinear", aux |-> aux, y |-> yv,
     P_import |-> IF aux = 1 THEN x ELSE o,
     P_export |-> IF aux = 2 THEN x ELSE o,
     Conv_cap |-> IF aux = 3 THEN x ELSE o,
     Qin |-> IF aux = 4 THEN x ELSE o,
     Qout |-> IF aux = 5 THEN x ELSE o,
     z1 |-> IF aux = 1 THEN z ELSE 0,
     z2 |-> IF aux = 2 THEN z ELSE 0,
     z3 |-> IF aux = 3 THEN z ELSE 0,
     z4 |-> IF aux = 4 THEN z ELSE 0,
     z5 |-> IF aux = 5 THEN z ELSE 0]

\* ---------------------------------------------------------- storage balance
\* The input data supply Time_steps = 1 .. T and Days = 1 .. D (a flat
\* Time = 1 .. D * T in EnergyHub_retrofit); Calendar_days is 1 .. 365.
TimeStepCounts == (FirstHourStride - MaxSample) .. (FirstHourStride + MaxSample)
DayCounts ==
    (1 .. MaxSample) \cup ((CalendarDays - MaxSample) .. (CalendarDays + MaxSample))
IndexSample(n) == LowHigh(1, n) \cap (1 .. n)

\* SoC = pe.Var(Storage_tech, Days or Calendar_days, Time_steps)
SoC_Days(tr, D) == IF tr = 3 THEN 1 .. CalendarDays ELSE 1 .. D

\* Storage_balance_rule of EnergyHub.py: the index of the SoC variable on
\* the right-hand side of the balance at (d, t)
Storage_balance_rule_EnergyHub(tr, d, t) ==
    IF t # 1 THEN [d |-> d, t |-> t - 1]
    ELSE IF tr = 1 THEN [d |-> d, t |-> t + LastStepOffset]
    ELSE IF d # 1 THEN [d |-> d - 1, t |-> t + LastStepOffset]
    ELSE [d |-> d + LastDayOffset, t |-> t + LastStepOffset]

\* Storage_balance_rule of EnergyHubRetrofit.py; max(m.Time_steps) = T,
\* max(m.Calendar_days) = 365
Storage_balance_rule(tr, T, d, t) ==
    IF t # 1 THEN [d |-> d, t |-> t - 1]
    ELSE IF tr = 1 THEN [d |-> d, t |-> t + T - 1]
    ELSE IF d # 1 THEN [d |-> d - 1, t |-> t + T - 1]
    ELSE IF tr = 2 THEN [d |-> d + LastDayOffset, t |-> t + T - 1]
    ELSE [d |-> d + CalendarDays - 1, t |-> t + T - 1]

\* EnergyHub_retrofit.py: First_hour = range(1, Number_of_time_steps + 1, 24)
\* when temp_res == 1, else {1}
First_hour_rule(tr, h) ==
    IF tr = 1 THEN (h - 1) % FirstHourStride = 0 ELSE h = 1

\* Storage_balance over Time - First_hour, Storage_balance_cycling over
\* First_hour: the index of E on the right-hand side of the balance at h
Storage_balance_cycling_rule(tr, h) ==
    IF First_hour_rule(tr, h)
    THEN (IF tr = 1 THEN h + LastStepOffset ELSE h + LastHourOffset)
    ELSE h - 1

\* position h of the flat Time set as (day, time-step) for T steps per day
FlatIndex(d, t, T) == (d - 1) * T + t
DayStep(h, T) == [d |-> ((h - 1) \div T) + 1, t |-> ((h - 1) % T) + 1]

\* the day whose Qin / Qout (z4 / z5) the balance at day d reads, per
\* retrofit scenario: C_to_T[d] (C_to_T[ret, d]) when temp_res == 3, else d
FlowDays(tr, ctt, d) ==
    [ret \in DOMAIN ctt |-> IF tr = 3 THEN ctt[ret] ELSE d]

\* the scenarios the C_to_T parameter is indexed by (0: not indexed)
C_to_T_Index(v, tr) ==
    IF tr = 3 /\ v = "EnergyHubRetrofit" THEN 1 .. 2 ELSE {0}

\* the balance generated at (d, t); valid: every index it reads exists (else
\* the rule raises KeyError and create_model does not complete)
StorageBalance(v, tr, T, D, ctt, d, t) ==
    LET pred == IF v = "EnergyHub" THEN Storage_balance_rule_EnergyHub(tr, d, t)
                ELSE IF v = "EnergyHubRetrofit" THEN Storage_balance_rule(tr, T, d, t)
                ELSE DayStep(Storage_balance_cycling_rule(tr, FlatIndex(d, t, T)), T)
        ok == IF v = "EnergyHub_retrofit"
              THEN Storage_balance_cycling_rule(tr, FlatIndex(d, t, T)) \in 1 .. D * T
              ELSE pred.d \in SoC_Days(tr, D) /\ pred.t \in 1 .. T
    IN [kind |-> "storage", Time_steps |-> T, Days |-> D, C_to_T |-> ctt,
        d |-> d, t |-> t, pred |-> pred, flow |-> FlowDays(tr, ctt, d),
        valid |-> ok]

\* the days of the index of the state of charge: SoC of EnergyHub and
\* EnergyHubRetrofit, E (over Time, taken day by day) of EnergyHub_retrofit
StateDays(v, tr, D) == IF v = "EnergyHub_retrofit" THEN 1 .. D ELSE SoC_Days(tr, D)

\* the days Storage_balance is generated over: if temp_res == 1 or 2: Days,
\* elif temp_res == 3: Calendar_days, and no constraint otherwise; in
\* EnergyHub_retrofit Time - First_hour and First_hour together, all of Time
Storage_balance_Days(v, tr, D) ==
    IF v = "EnergyHub_retrofit" THEN 1 .. D
    ELSE IF tr = 1 \/ tr = 2 THEN 1 .. D
    ELSE IF tr = 3 THEN 1 .. CalendarDays
    ELSE {}

\* ---------------------------------------------------------------- roof area
\* Roof_area_non_violation_rule of EnergyHub.py and EnergyHubRetrofit.py:
\* sum(m.Conv_cap[sol] for sol in m.Solar_tech) <= m.Roof_area
Roof_area_non_violation_rule(cap, area) ==
    SumOver(cap, DOMAIN cap) <= area

\* Roof_area_non_violation of EnergyHub_retrofit.py: the index set
\* (pv, st, bldg) with i == j == k over the enumerations of Solar_pv_inputs,
\* Solar_th_inputs and Buildings, by position k
Roof_area_non_violation_Index(nPV, nST, nB) ==
    {k \in 1 .. nPV : k <= nST /\ k <= nB}

\* m.Capacity[sol_pv] + m.Capacity[sol_st] <= m.Roof_area[bldg]
Roof_area_non_violation_rule_bldg(pv, st, area, k) ==
    pv[k] + st[k] <= area[k]

\* Conv_cap / Capacity: NonNegativeReals
RoofAssignment(pv, st, area, idx) ==
    [kind |-> "roof", pv |-> pv, st |-> st, area |-> area, index |-> idx]

\* ------------------------------------------------------------- load balance
\* One carrier ec at one time index (d, t).  The conversion technologies are
\* one dispatchable technology (flow P_conv, factor Conv_factor) and the
\* solar technology "PV" (flow P_pv, factor Conv_factor_pv); q is the storage
\* net discharge coupled to ec; Network_efficiency is in percent, and both
\* sides of the balance are multiplied by it.
PerCent == 100

\* m.Network_efficiency[ec] if ec in m.Energy_carriers_dem else 1
EfficiencyOf(a) == IF a.dem THEN a.Network_efficiency ELSE PerCent

\* Load_balance_rule of EnergyHub.py
Load_balance_rule_EnergyHub(a) ==
    ((IF a.imp THEN a.P_import ELSE 0)
       + a.P_conv * a.Conv_factor + a.P_pv * a.Conv_factor_pv
       + a.q) * EfficiencyOf(a)
    = (IF a.dem THEN a.Demands ELSE 0) * PerCent
       + (IF a.exp THEN a.P_export ELSE 0) * EfficiencyOf(a)

\* Load_balance_rule of EnergyHubRetrofit.py: the conversion sum leaves out
\* the technology named "PV"; Solar_self_consumption is added for the PV
\* technologies with a positive factor for ec; no export term
Load_balance_rule(a) ==
    ((IF a.imp THEN a.P_import ELSE 0)
       + a.P_conv * a.Conv_factor
       + a.q
       + (IF a.Conv_factor_pv > 0 THEN a.Solar_self_consumption ELSE 0))
      * EfficiencyOf(a)
    = (IF a.dem THEN a.Demands ELSE 0) * PerCent

\* Solar_self_consumption_rule, generated for every exportable carrier:
\* P_export["Elec"] == P_conv["PV"] - Solar_self_consumption["PV"]
Solar_self_consumption_rule(a) ==
    a.P_export = a.P_pv - a.Solar_self_consumption

\* Load_balance_rule of EnergyHub_retrofit.py: the grid is one of the
\* Inputs, every output has a load and an export variable
Load_balance_rule_retrofit(a) ==
    (a.P_conv * a.Conv_factor + a.P_pv * a.Conv_factor_pv + a.q)
      * a.Network_efficiency
    = a.Demands * PerCent + a.P_export * a.Network_efficiency

\* the constraints generated for the carrier of the assignment
LoadBalanceRules(v, a) ==
    IF v = "EnergyHub" THEN Load_balance_rule_EnergyHub(a)
    ELSE IF v = "EnergyHub_retrofit" THEN Load_balance_rule_retrofit(a)
    ELSE /\ Load_balance_rule(a)
         /\ (a.exp /\ a.ec = "Elec") => Solar_self_consumption_rule(a)

\* the carriers, their membership of Energy_carriers_imp / _exp / _dem, and
\* the variables of the balance (NonNegativeReals, q a difference of two)
LoadAssignments(v) ==
    {a \in [kind : {"load"},
            ec : IF v = "EnergyHubRetrofit" THEN {"Elec", "Heat"} ELSE {"Elec"},
            imp : IF v = "EnergyHub_retrofit" THEN {FALSE} ELSE BOOLEAN,
            exp : IF v = "EnergyHub_retrofit" THEN {TRUE} ELSE BOOLEAN,
            dem : IF v = "EnergyHub_retrofit" THEN {TRUE} ELSE BOOLEAN,
            P_import : 0 .. 1, P_export : 0 .. 2, Demands : 0 .. 2,
            Network_efficiency : {50, PerCent},
            P_conv : 0 .. 1, Conv_factor : {-1, 2},
            P_pv : 0 .. 1, Conv_factor_pv : 0 .. 2,
            q : -1 .. 1,
            Solar_self_consumption :
                IF v = "EnergyHubRetrofit" THEN 0 .. 1 ELSE {0}] :
        /\ ~a.imp => a.P_import = 0
        /\ ~a.exp => a.P_export = 0
        /\ ~a.dem => a.Demands = 0 /\ a.Network_efficiency = PerCent}

\* --------------------------------------------------------- minimum part load
\* One dispatchable technology, one carrier and one time index;
\* Minimum_part_load is in percent and rule 2 is multiplied by 100.
\* Minimum_part_load_constr_rule1:
\* P_conv * Conv_factor <= BigM * y_on
Minimum_part_load_constr_rule1_NoSwitch(a) ==
    a.P_conv * a.Conv_factor <= BigM
Minimum_part_load_constr_rule1(a) ==
    a.P_conv * a.Conv_factor <= BigM * a.y_on

\* Minimum_part_load_constr_rule2:
\* P_conv * Conv_factor + BigM * (1 - y_on) >= Minimum_part_load * Conv_cap
Minimum_part_load_constr_rule2(a) ==
    (a.P_conv * a.Conv_factor + BigM * (1 - a.y_on)) * PerCent
        >= a.Minimum_part_load * a.Conv_cap

\* Mininum_part_rule_constr1 / 2 are generated at the indices with
\* Conv_factor[disp, ec] > 0 (Cmatrix[out, disp] > 0 in EnergyHub_retrofit)
PartLoadRules(a) ==
    a.Conv_factor > 0 =>
        Minimum_part_load_constr_rule1(a) /\ Minimum_part_load_constr_rule2(a)

\* y_on: Binary; P_conv, Conv_cap: NonNegativeReals
PartLoadAssignments ==
    [kind : {"partload"}, y_on : {0, 1},
     P_conv : LowHigh(0, BigM), Conv_factor : -1 .. 2,
     Minimum_part_load : {0, 50, PerCent}, Conv_cap : LowHigh(0, BigM)]

\* -------------------------------------------------------- installation gates
\* One technology: a dispatchable conversion technology ("conv"), a solar
\* technology ("solar") or a storage technology ("stor"), with its
\* installation binary y, its capacity cap, and the input parameter that
\* limits it: Roof_area for "solar", Storage_max_cap for "stor".
\* Fixed_cost_constr_rule: Conv_cap <= BigM * y_conv (BigM_2 in
\* EnergyHubRetrofit.py)
Fixed_cost_constr_rule(v, a) ==
    a.cap <= (IF v = "EnergyHubRetrofit" THEN BigM_2 ELSE BigM) * a.y

\* Fixed_cost_storage_rule: Storage_cap <= BigM * y_stor
Fixed_cost_storage_rule(a) == a.cap <= BigM * a.y

\* Max_allowable_storage_cap_rule: Storage_cap <= Storage_max_cap
Max_allowable_storage_cap_rule(a) == a.cap <= a.limit

\* Min_installable_capacity_rule / _rule_2 (EnergyHubRetrofit.py only):
\* capacity >= min_install * y
Min_installable_capacity_rule(a) == a.cap >= min_install * a.y

\* the constraints that bound the capacity of the technology; a solar
\* technology alone on the roof is bounded by Roof_area_non_violation
InstallRules(v, a) ==
    /\ v = "EnergyHubRetrofit" => Min_installable_capacity_rule(a)
    /\ IF a.tech = "stor"
       THEN Fixed_cost_storage_rule(a) /\ Max_allowable_storage_cap_rule(a)
       ELSE Fixed_cost_constr_rule(v, a)
    /\ a.tech = "solar" => Roof_area_non_violation_rule(<< a.cap >>, a.limit)

\* y_conv, y_stor: Binary; Conv_cap, Storage_cap: NonNegativeReals;
\* Roof_area, Storage_max_cap: input data
CapacitySample ==
    (0 .. MaxSample) \cup ((min_install - MaxSample) .. (min_install + MaxSample))
       \cup ((BigM_2 - 1) .. (BigM_2 + 1)) \cup ((BigM - 1) .. (BigM + 1))
InstallAssignments ==
    {a \in [kind : {"install"}, tech : {"conv", "solar", "stor"}, y : {0, 1},
            cap : CapacitySample,
            limit : ((min_install - MaxSample) .. (min_install + MaxSample))
                       \cup {BigM_2, BigM}] :
        a.tech = "conv" => a.limit = BigM}

\* ------------------------------------------------- storage rates and capacity
\* Storage_charg_rate_constr_rule; the rate parameters are fractions of the
\* capacity, here in hundredths
Storage_charg_rate_constr_rule(a) ==
    a.Qin * PerCent <= a.Storage_max_charge * a.Storage_cap

\* Storage_discharg_rate_constr_rule
Storage_discharg_rate_constr_rule(a) ==
    a.Qout * PerCent <= a.Storage_max_charge * a.Storage_cap

RateAssignments ==
    [kind : {"rate"}, Qin : 0 .. MaxSample, Qout : 0 .. MaxSample,
     Storage_cap : 0 .. MaxSample,
     Storage_max_charge : {50, PerCent}, Storage_max_discharge : {50, PerCent}]

\* the days Storage_cap_constr is generated over: pe.Constraint(Storage_tech,
\* Days, Time_steps, ...), in EnergyHubRetrofit with temp_res == 3 over
\* Calendar_days
Storage_cap_constr_Days(v, tr, D) ==
    IF v = "EnergyHubRetrofit" /\ tr = 3 THEN 1 .. CalendarDays ELSE 1 .. D

\* Storage_cap_constr_rule
Storage_cap_constr_rule(a) == a.SoC <= a.Storage_cap

\* a state of charge at day d of the index of SoC (d, t flattened into Time
\* for E of EnergyHub_retrofit), with the constraint generated for it or not
CapAssignment(v, tr, D, d, soc, cap) ==
    [kind |-> "cap", Days |-> D, d |-> d, SoC |-> soc, Storage_cap |-> cap,
     constrained |-> d \in Storage_cap_constr_Days(v, tr, D)]

\* ------------------------------------ simultaneous charging and discharging
\* er = pe.Param(initialize=1e-6) and the divisor 100 of scd1 .. scd4.  The
\* flows Qin, Qout (and Storage_cap) are counted in units of half of 100 * er,
\* FlowScale units to 1, so that the rules, multiplied by ScdOne, are exact
\* on integers
FlowScale == (2 * ErInverse) \div ScdDivisor
ScdOne == ScdDivisor * FlowScale
ScdEr == ScdOne \div ErInverse

\* QIin >= Qin / 100
scd1_rule(a) == a.QIin * ScdOne >= a.Qin
\* QIout >= Qout / 100
scd2_rule(a) == a.QIout * ScdOne >= a.Qout
\* QIin <= 1 - er + Qin / 100
scd3_rule(a) == a.QIin * ScdOne <= ScdOne - ScdEr + a.Qin
\* QIout <= 1 - er + Qout / 100
scd4_rule(a) == a.QIout * ScdOne <= ScdOne - ScdEr + a.Qout
\* z_scd >= 1 - QIin
scd5_rule(a) == a.z_scd >= 1 - a.QIin
\* z_scd >= 1 - QIout
scd6_rule(a) == a.z_scd >= 1 - a.QIout
\* z_scd <= 2 - QIin - QIout
scd7_rule(a) == a.z_scd <= 2 - a.QIin - a.QIout
\* z_scd == 1
scd8_rule_Free(a) == a.z_scd \in 0 .. 1
scd8_rule(a) == a.z_scd = 1

ScdRules(a) ==
    /\ scd1_rule(a) /\ scd2_rule(a) /\ scd3_rule(a) /\ scd4_rule(a)
    /\ scd5_rule(a) /\ scd6_rule(a) /\ scd7_rule(a) /\ scd8_rule(a)

\* flows from 0 to just above 100, a storage that is absent or larger than
\* 100, the binaries
ScdAssignments ==
    [kind : {"scd"},
     Qin : LowHigh(0, ScdOne + MaxSample), Qout : LowHigh(0, ScdOne + MaxSample),
     Storage_cap : {0, 2 * ScdOne}, Storage_max_charge : {50, PerCent},
     QIin : 0 .. 1, QIout : 0 .. 1, z_scd : 0 .. 1]

\* -------------------------------------------------------- replication weight
\* Number_of_days = pe.Param(<index sets>, default=1, initialize=...): the
\* sets the parameter is declared over
Number_of_days_Index(v, tr) ==
    IF v = "EnergyHub"
    THEN (IF tr = 1 \/ tr = 3 THEN << "Days" >> ELSE << "Days", "Time_steps" >>)
    ELSE IF v = "EnergyHubRetrofit" THEN << "Retrofit_scenarios", "Days" >>
    ELSE << "Time", "Retrofit_scenarios" >>

\* the subscript the rules apply to it: m.Number_of_days[d],
\* m.Number_of_days[ret, d], m.Number_of_days[t, ret]
Number_of_days_Subscript(v) ==
    IF v = "EnergyHub" THEN << "Days" >>
    ELSE IF v = "EnergyHubRetrofit" THEN << "Retrofit_scenarios", "Days" >>
    ELSE << "Time", "Retrofit_scenarios" >>

\* initialize=self.inp.Number_of_days in typical-day modes, initialize=1 in
\* the full horizon
Number_of_days_Values(v, tr) ==
    IF tr = 2 THEN {1} ELSE 1 .. MaxSample + 1

\* the rules whose sums carry the weight
WeightedRules(v) ==
    IF v = "EnergyHub_retrofit"
    THEN {"Operating_cost_rule", "Income_via_exports_rule", "Total_carbon_rule"}
    ELSE {"Import_cost_rule", "Export_profit_rule", "Total_carbon_rule"}

\* one term of the sum of a rule: the weight it multiplies by, or KeyError
\* when the subscript is not an index of the parameter
WeightedTerm(v, tr, rule, w) ==
    IF Number_of_days_Subscript(v) = Number_of_days_Index(v, tr)
    THEN [kind |-> "weight", rule |-> rule, weight |-> w, error |-> "none"]
    ELSE [kind |-> "weight", rule |-> rule, weight |-> NoValue, error |-> "KeyError"]

\* ------------------------------------------- carbon total of a retrofit state
\* Embodied_emissions_insulation = pe.Param(Retrofit_scenarios, ...): "positive
\* or negative"; two scenarios, in either order
EmbodiedSample == {<<100, -50>>, <<-50, 100>>}

\* Lifetime_retrofit, the same for both scenarios, among the divisors of the
\* embodied values so that the quotient is exact
LifetimeSample == {1, 50}

\* the sum of the other terms of Total_carbon_rule (imports less exports
\* and certificates, embodied emissions of the technologies): the values the
\* operation of the hub can reach, none negative
OtherSample == {O \in SUBSET LowHigh(0, 50) : O # {} /\ Cardinality(O) <= MaxSample}

\* Total_carbon == ... + sum(Embodied_emissions_insulation[ret]
\*                           / Lifetime_retrofit[ret] * y_retrofit[ret]) + ...
Total_carbon_rule(emb, life, other, y) ==
    other + SumOver([ret \in DOMAIN emb |-> (emb[ret] \div life) * y[ret]], DOMAIN emb)

\* Total_carbon = pe.Var(within=pe.NonNegativeReals, initialize=0)
Total_carbon_Domain(tc) == tc >= 0

\* the assignments (y_retrofit, other terms) the solver may return for the
\* model with one objective active: those that satisfy One_retrofit_state_def,
\* Total_carbon_def, the domain of Total_carbon and Carbon_constraint, and
\* among them the carbon minimisers when the carbon objective is active; the
\* costs of the two scenarios being equal, every one of them is a cost
\* minimiser
RetrofitCandidates(emb, life, O, eps) ==
    {a \in [y : [DOMAIN emb -> 0 .. 1], other : O] :
        /\ One_retrofit_state_rule(DOMAIN emb, a.y)
        /\ Total_carbon_Domain(Total_carbon_rule(emb, life, a.other, a.y))
        /\ Carbon_constraint_rule(
              [carbon |-> Total_carbon_rule(emb, life, a.other, a.y)], eps)}

RetrofitOptimal(emb, life, O, eps, objective) ==
    LET F == RetrofitCandidates(emb, life, O, eps)
    IN IF objective = "cost" THEN F
       ELSE {a \in F : \A b \in F :
                Total_carbon_rule(emb, life, a.other, a.y)
                   <= Total_carbon_rule(emb, life, b.other, b.y)}

\* what the model holds after the anchor solve: the returned assignment, or
\* nothing loaded when the solver reports infeasible
AnchorAssignment(emb, life, O, objective, a, found) ==
    [kind |-> "anchor", objective |-> objective, emb |-> emb, life |-> life,
     others |-> O, found |-> found,
     y |-> IF found THEN a.y ELSE [ret \in DOMAIN emb |-> NoValue],
     Total_carbon |-> IF found THEN Total_carbon_rule(emb, life, a.other, a.y)
                               ELSE 0]

\* create_model for an instance of any temp_res: built is whether it runs to
\* its end (the cost and carbon rules can subscript Number_of_days), and
\* generated whether a storage balance exists at day d of the state of charge
BalanceIndex(v, tr, D, d) ==
    [kind |-> "balance_index", Days |-> D, d |-> d,
     built |-> Number_of_days_Subscript(v) = Number_of_days_Index(v, tr),
     generated |-> d \in Storage_balance_Days(v, tr, D)]

InitConstraints ==
    /\ variant \in Variants
    /\ temp_res \in AcceptedTempRes
    /\ optim_mode = 1
    /\ num_of_pareto_points = 0
    /\ num_of_pfp = NumOfPfp(optim_mode, num_of_pareto_points)
    /\ sp_bound = FALSE
    /\ region = {}
    /\ epsilon = EpsilonInit(variant)
    /\ Cost_obj = TRUE
    /\ Carbon_obj = TRUE
    /\ vals = InitialVals(variant)
    /\ pc = "idle"
    /\ i = 0
    /\ steps = << >>
    /\ carb_max = NoRat
    /\ carb_min = NoRat
    /\ front = << >>
    /\ calls = << >>
    /\ err = "none"
    /\ nsolve = 1
    /\ cs = NoAssignment
    /\ sat = FALSE

\* One_retrofit_state_def on an assignment of y_retrofit
EvalOneRetrofit ==
    /\ cs = NoAssignment
    /\ variant # "EnergyHub"
    /\ \E a \in RetrofitAssignments :
         /\ cs' = a
         /\ sat' = One_retrofit_state_rule(a.scen, a.y)
    /\ UNCHANGED <<dvars, temp_res>>

\* z<k>_rule_1 .. z<k>_rule_4 on an assignment of z<k>, its variable and
\* y_retrofit[ret]
EvalBilinear ==
    /\ cs = NoAssignment
    /\ variant = "EnergyHubRetrofit"
    /\ \E aux \in 1 .. 5, yv \in {0, 1}, x \in LowHigh(0, BigM),
          o \in LowHigh(0, BigM), z \in LowHigh(-1, BigM + 1) :
         /\ cs' = BilinearAssignment(aux, yv, x, o, z)
         /\ sat' = BilinearRules(BilinearAssignment(aux, yv, x, o, z))
    /\ UNCHANGED <<dvars, temp_res>>

\* Storage_balance (and Storage_balance_cycling) at one index
EvalStorageBalance ==
    /\ cs = NoAssignment
    /\ temp_res \in TempResOf(variant)
    /\ \E T \in TimeStepCounts, D \in DayCounts :
         \E ctt \in [C_to_T_Index(variant, temp_res) -> {1, D}],
            d \in IndexSample(IF temp_res = 3 THEN CalendarDays ELSE D),
            t \in IndexSample(T) :
              /\ cs' = StorageBalance(variant, temp_res, T, D, ctt, d, t)
              /\ sat' = StorageBalance(variant, temp_res, T, D, ctt, d, t).valid
    /\ UNCHANGED <<dvars, temp_res>>

\* Roof_area_non_violation on an assignment of the solar capacities
EvalRoofArea ==
    /\ cs = NoAssignment
    /\ IF variant = "EnergyHub_retrofit"
       THEN \E nPV \in 1 .. MaxTech, nST \in 1 .. MaxTech, nB \in 1 .. MaxTech :
              \E pv \in [1 .. nPV -> 0 .. MaxSample],
                 st \in [1 .. nST -> 0 .. MaxSample],
                 area \in [1 .. nB -> {1, MaxSample}] :
                /\ cs' = RoofAssignment(pv, st, area,
                                        Roof_area_non_violation_Index(nPV, nST, nB))
                /\ sat' = \A k \in Roof_area_non_violation_Index(nPV, nST, nB) :
                              Roof_area_non_violation_rule_bldg(pv, st, area, k)
       ELSE \E n \in 1 .. MaxTech :
              \E cap \in [1 .. n -> 0 .. MaxSample], area \in 0 .. MaxSample + 1 :
                /\ cs' = RoofAssignment(cap, << >>, << area >>, {1})
                /\ sat' = Roof_area_non_violation_rule(cap, area)
    /\ UNCHANGED <<dvars, temp_res>>

\* Load_balance (and Solar_input of EnergyHubRetrofit) at one carrier and
\* time index
EvalLoadBalance ==
    /\ cs = NoAssignment
    /\ \E a \in LoadAssignments(variant) :
         /\ cs' = a
         /\ sat' = LoadBalanceRules(variant, a)
    /\ UNCHANGED <<dvars, temp_res>>

\* Mininum_part_rule_constr1 / 2 at one (disp, ec, d, t)
EvalPartLoad ==
    /\ cs = NoAssignment
    /\ \E a \in PartLoadAssignments :
         /\ cs' = a
         /\ sat' = PartLoadRules(a)
    /\ UNCHANGED <<dvars, temp_res>>

\* Fixed_cost_constr, Fixed_cost_storage, Max_allowable_storage_cap,
\* Min_installable_capacity(_2), Roof_area_non_violation for one technology
EvalInstall ==
    /\ cs = NoAssignment
    /\ \E a \in InstallAssignments :
         /\ cs' = a
         /\ sat' = InstallRules(variant, a)
    /\ UNCHANGED <<dvars, temp_res>>

\* Import_cost_def, Export_profit_def, Total_carbon_def: one term
EvalWeight ==
    /\ cs = NoAssignment
    /\ temp_res \in TempResOf(variant)
    /\ \E rule \in WeightedRules(variant),
          w \in Number_of_days_Values(variant, temp_res) :
         /\ cs' = WeightedTerm(variant, temp_res, rule, w)
         /\ sat' = (WeightedTerm(variant, temp_res, rule, w).error = "none")
    /\ UNCHANGED <<dvars, temp_res>>

\* the cost anchor and the carbon anchor of the first solve() on the model
\* (epsilon as initialised), two retrofit scenarios of equal cost
EvalAnchor ==
    /\ cs = NoAssignment
    /\ variant = "EnergyHubRetrofit"
    /\ \E emb \in EmbodiedSample, life \in LifetimeSample, O \in OtherSample,
          objective \in {"cost", "carbon"} :
         LET opt == RetrofitOptimal(emb, life, O, EpsilonInit(variant), objective)
         IN IF opt = {}
            THEN /\ cs' = AnchorAssignment(emb, life, O, objective, NoAssignment, FALSE)
                 /\ sat' = FALSE
            ELSE \E a \in opt :
                 /\ cs' = AnchorAssignment(emb, life, O, objective, a, TRUE)
                 /\ sat' = TRUE
    /\ UNCHANGED <<dvars, temp_res>>

\* Storage_charg_rate_constr and Storage_discharg_rate_constr on an
\* assignment of the flows of one storage technology at one time index
EvalStorageRate ==
    /\ cs = NoAssignment
    /\ \E a \in RateAssignments :
         /\ cs' = a
         /\ sat' = (Storage_charg_rate_constr_rule(a)
                       /\ Storage_discharg_rate_constr_rule(a))
    /\ UNCHANGED <<dvars, temp_res>>

\* Storage_cap_constr on a state of charge at one index of SoC; with
\* temp_res == 3 the typical days Days are among the calendar days
EvalStorageCap ==
    /\ cs = NoAssignment
    /\ temp_res \in TempResOf(variant)
    /\ \E D \in {n \in DayCounts : temp_res = 3 => n <= CalendarDays} :
         \E d \in IndexSample(IF temp_res = 3 THEN CalendarDays ELSE D),
            soc \in 0 .. MaxSample, cap \in 0 .. MaxSample :
              /\ cs' = CapAssignment(variant, temp_res, D, d, soc, cap)
              /\ sat' = (CapAssignment(variant, temp_res, D, d, soc, cap).constrained
                            => Storage_cap_constr_rule(
                                  CapAssignment(variant, temp_res, D, d, soc, cap)))
    /\ UNCHANGED <<dvars, temp_res>>

\* scd1_constr .. scd8_constr on an assignment of the flows and binaries of
\* one storage technology at one (day, time-step)
EvalScd ==
    /\ cs = NoAssignment
    /\ variant = "EnergyHubRetrofit"
    /\ \E a \in ScdAssignments :
         /\ cs' = a
         /\ sat' = ScdRules(a)
    /\ UNCHANGED <<dvars, temp_res>>

\* Storage_balance (and Storage_balance_cycling) at one index of the state
\* of charge, for every temp_res the constructor accepts
EvalBalanceIndex ==
    /\ cs = NoAssignment
    /\ \E D \in {n \in DayCounts : n <= CalendarDays} :
         \E d \in IndexSample(Cardinality(StateDays(variant, temp_res, D))) :
              /\ cs' = BalanceIndex(variant, temp_res, D, d)
              /\ sat' = (BalanceIndex(variant, temp_res, D, d).built
                            /\ BalanceIndex(variant, temp_res, D, d).generated)
    /\ UNCHANGED <<dvars, temp_res>>

NextConstraints ==
    \/ EvalOneRetrofit
    \/ EvalBilinear
    \/ EvalStorageBalance
    \/ EvalRoofArea
    \/ EvalLoadBalance
    \/ EvalPartLoad
    \/ EvalInstall
    \/ EvalWeight
    \/ EvalAnchor
    \/ EvalStorageRate
    \/ EvalStorageCap
    \/ EvalScd
    \/ EvalBalanceIndex

SpecConstraints == InitConstraints /\ [][NextConstraints]_vars

\* ================================================================== claims
Finished == pc \in {"returned", "raised"}
MultiObjective == optim_mode # 1 /\ optim_mode # 2
AllOptimal == \A k \in 1 .. Len(calls) : calls[k].status = "optimal"
CostOnlyCall(c) == c.Cost_obj /\ ~c.Carbon_obj
CarbonOnlyCall(c) == c.Carbon_obj /\ ~c.Cost_obj

\* C1: in multi-objective mode with N >= 1, when every solver call succeeds,
\* solve() finishes with a list of N+2 entries, none empty: entry 0 from the
\* cost anchor (carbon objective off), entry N+1 from a cost minimisation
\* under carbon <= C_min.
C1_FrontComplete ==
    (Finished /\ MultiObjective /\ num_of_pfp >= 1 /\ AllOptimal) =>
        /\ pc = "returned"
        /\ Len(front) = num_of_pfp + 2
        /\ \A j \in 1 .. Len(front) : front[j].filled
        /\ calls[front[1].call].step = "cost_anchor"
        /\ CostOnlyCall(calls[front[1].call])
        /\ CostOnlyCall(calls[front[num_of_pfp + 2].call])
        /\ calls[front[num_of_pfp + 2].call].eps = carb_min

\* C2: the epsilon values of the sweep solves are equally spaced, strictly
\* decreasing, all in [C_min, C_max), and the last one (solve N+1) is C_min.
C2_EpsilonSweep ==
    \A k \in 1 .. Len(calls) :
        calls[k].step = "sweep" =>
            /\ RatLeq(carb_min, calls[k].eps)
            /\ RatLt(calls[k].eps, carb_max)
            /\ (calls[k].i = num_of_pfp + 1 => calls[k].eps = carb_min)
            /\ (k < Len(calls) =>
                   /\ RatLt(calls[k + 1].eps, calls[k].eps)
                   /\ RatSub(calls[k].eps, calls[k + 1].eps) =
                          Interval(carb_max, carb_min, num_of_pfp))

\* C3: along a returned front (every solve optimal) Total_carbon is
\* non-increasing and Total_cost is non-decreasing from entry to entry.
C3_Monotone ==
    (pc = "returned" /\ MultiObjective /\ AllOptimal) =>
        \A j \in 1 .. Len(front) - 1 :
            /\ front[j + 1].carbon <= front[j].carbon
            /\ front[j + 1].cost >= front[j].cost

\* C4: a solver call that reports infeasible ends solve() in a failure: no
\* point is recorded for that call and no later solver call is made.
C4_FailureSurfaces ==
    \A k \in 1 .. Len(calls) :
        calls[k].status # "optimal" =>
            /\ pc = "raised"
            /\ k = Len(calls)
            /\ \A j \in 1 .. Len(front) : front[j].call # k

\* C5: every solver call of one solve() sees the same sets, parameters,
\* variables and constraints (the region); only epsilon and the two
\* objective flags differ from call to call.
C5_SnapshotFrame ==
    \A k \in 1 .. Len(calls) : calls[k].region = region

\* C5 witness: a run of three solver calls between which the driver changed
\* epsilon and switched the objectives.
C5_Witness ==
    /\ Len(calls) >= 3
    /\ calls[1].eps # calls[3].eps
    /\ CarbonOnlyCall(calls[2])
    /\ CostOnlyCall(calls[3])
    /\ calls[1].region # {}

\* C6: in multi-objective mode with N = 0 (every solve optimal) solve() makes
\* three solver calls, the third a cost minimisation with epsilon = C_min,
\* raises nothing and returns two points.
C6_ZeroPoints ==
    (Finished /\ MultiObjective /\ num_of_pfp = 0 /\ AllOptimal) =>
        /\ pc = "returned"
        /\ Len(calls) = 3
        /\ CostOnlyCall(calls[3])
        /\ calls[3].eps = carb_min
        /\ Len(front) = 2
        /\ front[1].filled /\ front[2].filled

C8_CallCount ==
    (Finished /\ AllOptimal) =>
        Len(calls) = (IF optim_mode = 1 THEN 1
                      ELSE IF optim_mode = 2 THEN 2
                      ELSE num_of_pfp + 3)

\* C9: every assignment of the binaries y_retrofit that satisfies the
\* generated constraint has exactly one scenario at 1 and all others at 0.
C9_ExactlyOneRetrofit ==
    (cs.kind = "retrofit" /\ sat) =>
        \E r \in cs.scen :
            /\ cs.y[r] = 1
            /\ \A q \in cs.scen \ {r} : cs.y[q] = 0

\* C9 witness: an accepted assignment over three or more scenarios.
C9_Witness ==
    /\ cs.kind = "retrofit" /\ sat
    /\ Cardinality(cs.scen) >= 3

\* the continuous variable and the auxiliary the claim pairs: z1 - P_import,
\* z2 - P_export, z3 - Conv_cap, z4 - Qin, z5 - Qout
PairedX(a) ==
    CASE a.aux = 1 -> a.P_import [] a.aux = 2 -> a.P_export
      [] a.aux = 3 -> a.Conv_cap [] a.aux = 4 -> a.Qin [] a.aux = 5 -> a.Qout
PairedZ(a) ==
    CASE a.aux = 1 -> a.z1 [] a.aux = 2 -> a.z2
      [] a.aux = 3 -> a.z3 [] a.aux = 4 -> a.z4 [] a.aux = 5 -> a.z5

\* C10: for each auxiliary z1 .. z5, an assignment with 0 <= x <= BigM that
\* satisfies the four inequalities has z = x when y_retrofit = 1 and z = 0
\* when y_retrofit = 0.
C10_BilinearExact ==
    (cs.kind = "bilinear" /\ sat /\ 0 <= PairedX(cs) /\ PairedX(cs) <= BigM) =>
        /\ cs.y = 1 => PairedZ(cs) = PairedX(cs)
        /\ cs.y = 0 => PairedZ(cs) = 0

\* C10 witness: z4 accepted with the scenario selected and a positive Qin
\* that differs from the other flows.
C10_Witness ==
    /\ cs.kind = "bilinear" /\ sat
    /\ cs.aux = 4 /\ cs.y = 1
    /\ cs.Qin > 0 /\ cs.Qin # cs.Qout

\* the (day, time-step) index that precedes (d, t) in the closed chain over
\* days 1 .. D of T time-steps each
CyclicPredecessor(d, t, D, T) ==
    IF t # 1 THEN [d |-> d, t |-> t - 1]
    ELSE IF d # 1 THEN [d |-> d - 1, t |-> T]
    ELSE [d |-> D, t |-> T]

\* C11: in typical-day mode the balance of the first time-step of day d reads
\* the state of charge at the last time-step of the same day d, an index of
\* the Time_steps set, for every number of time-steps per day.
C11_TypicalDayWrap ==
    (cs.kind = "storage" /\ temp_res = 1 /\ cs.t = 1) =>
        /\ cs.valid
        /\ cs.pred = [d |-> cs.d, t |-> cs.Time_steps]

\* C12: in full-horizon mode every balance reads the state of charge of the
\* index that precedes it in the closed chain over all (day, time-step)
\* indices: the previous time-step, the last time-step of the previous day,
\* or for the first index the last time-step of the last day.
C12_FullHorizonCycle ==
    (cs.kind = "storage" /\ temp_res = 2) =>
        /\ cs.valid
        /\ cs.pred = CyclicPredecessor(cs.d, cs.t, cs.Days, cs.Time_steps)

\* C13: in continuous-state mode the balance at calendar day cd and
\* time-step t takes its flows from day C_to_T[cd] (C_to_T[ret, cd] for each
\* scenario ret) and its predecessor state from the index before (cd, t) in
\* the closed chain over the 365 calendar days.
C13_ContinuousState ==
    (cs.kind = "storage" /\ temp_res = 3) =>
        /\ cs.valid
        /\ cs.flow = cs.C_to_T
        /\ cs.pred = CyclicPredecessor(cs.d, cs.t, CalendarDays, cs.Time_steps)

\* capacity of the k-th technology of a list, 0 when the list is shorter
CapAt(cap, k) == IF k \in DOMAIN cap THEN cap[k] ELSE 0

\* C14: in every accepted assignment the solar capacities sum to at most
\* Roof_area; in the per-building variant PV plus solar-thermal capacity of
\* each building is at most the building's roof area and every solar
\* technology is in exactly one generated constraint.
C14_RoofArea ==
    (cs.kind = "roof" /\ sat) =>
        IF variant = "EnergyHub_retrofit"
        THEN /\ \A b \in DOMAIN cs.area :
                   CapAt(cs.pv, b) + CapAt(cs.st, b) <= cs.area[b]
             /\ \A k \in DOMAIN cs.pv : k \in cs.index
             /\ \A k \in DOMAIN cs.st : k \in cs.index
        ELSE SumOver(cs.pv, DOMAIN cs.pv) <= cs.area[1]

\* C15: every accepted assignment balances, for its carrier, imports (if
\* importable) + every conversion flow times its conversion factor, the
\* solar flow included, + storage net discharge against demand divided by
\* network efficiency (if demanded) + exports (if exportable).
C15_LoadBalance ==
    (cs.kind = "load" /\ sat) =>
        ((IF cs.imp THEN cs.P_import ELSE 0)
           + cs.P_conv * cs.Conv_factor + cs.P_pv * cs.Conv_factor_pv
           + cs.q) * EfficiencyOf(cs)
        = (IF cs.dem THEN cs.Demands ELSE 0) * PerCent
           + (IF cs.exp THEN cs.P_export ELSE 0) * EfficiencyOf(cs)

\* C16: for a dispatchable technology and a carrier with a positive
\* conversion factor, with output = P_conv * Conv_factor and output and
\* Minimum_part_load * Conv_cap not above BigM, an accepted assignment has
\* output = 0 when y_on = 0 and output >= Minimum_part_load * Conv_cap when
\* y_on = 1.
C16_MinimumPartLoad ==
    (/\ cs.kind = "partload" /\ sat
     /\ cs.Conv_factor > 0
     /\ cs.P_conv * cs.Conv_factor <= BigM
     /\ cs.Minimum_part_load * cs.Conv_cap <= BigM * PerCent) =>
        /\ cs.y_on = 0 => cs.P_conv * cs.Conv_factor = 0
        /\ cs.y_on = 1 =>
              cs.P_conv * cs.Conv_factor * PerCent
                  >= cs.Minimum_part_load * cs.Conv_cap

\* C16 witness: an accepted assignment of a technology that is on, with a
\* positive part-load floor and an output between the floor and BigM.
C16_Witness ==
    /\ cs.kind = "partload" /\ sat
    /\ cs.Conv_factor = 2 /\ cs.y_on = 1
    /\ cs.Minimum_part_load = 50 /\ cs.Conv_cap = 2
    /\ cs.P_conv = 1

\* the smallest of the upper bounds on the capacity of an installed
\* technology
UpperBound(v, a) ==
    LET big == IF a.tech # "stor" /\ v = "EnergyHubRetrofit" THEN BigM_2 ELSE BigM
    IN IF a.tech # "conv" /\ a.limit < big THEN a.limit ELSE big

\* C17: capacity is 0 whenever the installation binary is 0; in
\* EnergyHubRetrofit an installed technology has min_install <= capacity <=
\* its big-M bound, and min_install is strictly below every upper bound that
\* applies to the technology (big-M, Storage_max_cap, Roof_area).
C17_InstallGate ==
    cs.kind = "install" =>
        /\ (sat /\ cs.y = 0) => cs.cap = 0
        /\ variant = "EnergyHubRetrofit" =>
              /\ (sat /\ cs.y = 1) =>
                    /\ min_install <= cs.cap
                    /\ cs.cap <= (IF cs.tech = "stor" THEN BigM ELSE BigM_2)
              /\ min_install < UpperBound(variant, cs)

\* C18: in full-horizon mode the import-cost, export-profit and carbon rules
\* are generated in every variant (create_model completes) and every term
\* of their sums has replication weight 1.
C18_FullHorizonWeight ==
    (cs.kind = "weight" /\ temp_res = 2) =>
        /\ sat
        /\ cs.weight = 1

\* the steps of solve() that store a point, and the list position they store
\* it at
RecordingSteps == {"cost_min", "carbon_min_cost", "cost_anchor", "single", "sweep"}
PointIndex(c) ==
    IF c.step = "single" THEN 2 ELSE IF c.step = "sweep" THEN c.i + 1 ELSE 1

\* where solve() stands after a solved step c
AfterSolved(c) ==
    CASE c.step \in {"cost_min", "carbon_min_cost", "single"} -> {"returned"}
      [] c.step = "carbon_min" -> {"carbon_min_cost"}
      [] c.step = "cost_anchor" -> {"carbon_anchor"}
      [] c.step = "carbon_anchor" -> IF num_of_pfp = 0 THEN {"single"} ELSE {"sweep"}
      [] c.step = "sweep" -> IF c.i = num_of_pfp + 1 THEN {"returned"} ELSE {"sweep"}

C19_WitnessNoIncumbent ==
    /\ pc = "raised" /\ Len(calls) >= 2
    /\ calls[Len(calls)].status = "time_limit_no_incumbent"
    /\ front[1].filled

\* C20: with two scenarios of embodied emissions 100 and -50 and equal
\* cost, whatever the non-negative other contributions, the carbon anchor
\* returns a design that selects the -50 scenario and the cost anchor a
\* design that selects exactly one of the two.
C20_RetrofitChoice ==
    cs.kind = "anchor" =>
        /\ cs.found
        /\ \E r \in DOMAIN cs.emb :
              /\ cs.y[r] = 1
              /\ \A q \in DOMAIN cs.emb \ {r} : cs.y[q] = 0
              /\ cs.objective = "carbon" => cs.emb[r] = -50

\* C21: the constructor stores 0 Pareto points when optim_mode is 1 or 2,
\* whatever number was passed, and the passed number for every other
\* optim_mode; solve() starts with the cost anchor of the multi-objective
\* branch exactly when optim_mode is neither 1 nor 2.
C21_ModeSelector ==
    /\ (optim_mode = 1 \/ optim_mode = 2) => num_of_pfp = 0
    /\ (optim_mode # 1 /\ optim_mode # 2) => num_of_pfp = num_of_pareto_points
    /\ Len(calls) >= 1 =>
          /\ calls[1].step = "cost_anchor" <=> (optim_mode # 1 /\ optim_mode # 2)
          /\ calls[1].step = "cost_min" <=> optim_mode = 1
          /\ calls[1].step = "carbon_min" <=> optim_mode = 2

\* C21 witness: a returned carbon-only run of an instance that was passed a
\* positive number of Pareto points.
C21_Witness ==
    /\ optim_mode = 2 /\ pc = "returned"
    /\ num_of_pareto_points > 0 /\ num_of_pfp = 0

\* a sweep step of an instance whose optim_mode is none of 1, 2, 3
C21_WitnessOtherMode ==
    /\ optim_mode \notin 1 .. 3
    /\ num_of_pfp = num_of_pareto_points /\ num_of_pfp >= 1
    /\ \E k \in 1 .. Len(calls) : calls[k].step = "sweep"

\* C22: an accepted assignment of the storage flows has the discharge within
\* Storage_max_discharge * Storage_cap and the charge within
\* Storage_max_charge * Storage_cap, also when the two rates differ.
C22_DischargeRate ==
    (cs.kind = "rate" /\ sat) =>
        /\ cs.Qout * PerCent <= cs.Storage_max_discharge * cs.Storage_cap
        /\ cs.Qin * PerCent <= cs.Storage_max_charge * cs.Storage_cap

\* C23: in every temporal mode the capacity constraint is generated at every
\* index of the state of charge, so an accepted state of charge is at most
\* the storage capacity.
C23_StateWithinCapacity ==
    (cs.kind = "cap" /\ sat) =>
        /\ cs.constrained
        /\ cs.SoC <= cs.Storage_cap

\* C24: an assignment accepted by scd1 .. scd8 never charges and discharges
\* at once: QIin = 1 exactly when Qin > 0, QIout = 1 exactly when Qout > 0,
\* and QIin + QIout <= 1.
C24_NoSimultaneous ==
    (cs.kind = "scd" /\ sat) =>
        /\ ~(cs.Qin > 0 /\ cs.Qout > 0)
        /\ cs.QIin = 1 <=> cs.Qin > 0
        /\ cs.QIout = 1 <=> cs.Qout > 0
        /\ cs.QIin + cs.QIout <= 1

\* C24 witness: an accepted assignment that charges.
C24_Witness ==
    /\ cs.kind = "scd" /\ sat
    /\ cs.Qin > 0 /\ cs.QIin = 1 /\ cs.Qout = 0

\* C30: flows that only charge or only discharge and respect the rate limit
\* Storage_max_charge * Storage_cap satisfy scd1 .. scd8 for some values of
\* the binaries.
C30_PureFlowsKept ==
    (/\ cs.kind = "scd"
     /\ cs.Qin = 0 \/ cs.Qout = 0
     /\ Storage_charg_rate_constr_rule(cs)
     /\ Storage_discharg_rate_constr_rule(cs)) =>
        \E qi \in 0 .. 1, qo \in 0 .. 1, z \in 0 .. 1 :
            ScdRules([cs EXCEPT !.QIin = qi, !.QIout = qo, !.z_scd = z])

\* the steps of solve() that minimise carbon
CarbonSteps == {"carbon_min", "carbon_anchor"}

AnchorSteps == {"cost_min", "cost_anchor", "carbon_min", "carbon_anchor"}

\* C26: on a freshly created model of any variant, the cost-only solve and
\* the two anchor solves run with epsilon at its initial value 10^8, which
\* excludes no design: an optimal anchor is an optimum over the whole
\* region.
C26_InitialEpsilonSlack ==
    nsolve = 1 =>
        \A k \in 1 .. Len(calls) :
            calls[k].step \in AnchorSteps =>
                /\ calls[k].eps = Rat(EpsilonInitLarge, 1)
                /\ Feasible(region, calls[k].eps) = region
                /\ calls[k].status # "infeasible" \/ region = {}

\* C27: in every solve() call on a model, the first or later, the solves
\* made before solve() assigns epsilon (the first solver call and the carbon
\* anchor) run with epsilon at its initial value.
C27_EpsilonReset ==
    \A k \in 1 .. Len(calls) :
        calls[k].step \in AnchorSteps => calls[k].eps = EpsilonInit(variant)

\* C28: in a sweep with N >= 1, whatever the two anchor values (equal ones
\* and C_min > C_max included), the list of epsilon steps has N+1 entries
\* and solve() stops with neither a division nor an index error.
C28_StepCount ==
    (MultiObjective /\ num_of_pfp >= 1) =>
        /\ err \notin {"ZeroDivisionError", "IndexError"}
        /\ (\E k \in 1 .. Len(calls) : calls[k].step = "carbon_anchor"
                                         /\ ~LoadRaises(calls[k].status))
              => Len(steps) = num_of_pfp + 1

\* C29: for every temp_res the constructor accepts, a model that
\* create_model builds to its end has a storage balance at every index of
\* the state of charge.
C29_BalanceEverywhere ==
    (cs.kind = "balance_index" /\ cs.built) => cs.generated

====
